---- MODULE Spec2Model ----
(***************************************************************************)
(* Workshop Thermal Camera: the thermal frame pipeline.                    *)
(*                                                                         *)
(*   cameras/amg88xx.py, mlx90640.py, fake_cam.py : acquire (clip, flips,  *)
(*       statistics, autofocus normalisation, 2x bilinear interpolation)   *)
(*   bundle/wtc_display.py : Display (cell grid, image and histogram       *)
(*       frames, bitmap row fetch)                                         *)
(*   bundle/code.py : acquire_and_display, capture_grid_and_upload, the    *)
(*       primary process loop with its clock checks                        *)
(*                                                                         *)
(* Spec is the frame pipeline from acquire to the exported bitmap;         *)
(* SpecInputs applies single operations to inputs of their whole domain;   *)
(* SpecLoop is the primary process loop against the real-time clock.       *)
(*                                                                         *)
(* Floating point values are modelled as exact rationals <<n, d>> in       *)
(* lowest terms with d > 0; <<0, 0>> is NaN (0.0 / 0.0) and <<1, 0>>,      *)
(* <<-1, 0>> are the infinities.  Arrays are functions indexed from 0, as  *)
(* in the source.                                                          *)
(***************************************************************************)
EXTENDS Integers, Sequences, FiniteSets, TLC

VARIABLES
    cam,            \* which camera class is instantiated
    sensor_axis,    \* camera._sensor_axis
    grid_axis,      \* camera._grid_axis, shared with display._grid_axis
    auto_focus,     \* camera._auto_focus
    interpolate,    \* camera._interpolate
    sensor_data,    \* camera._sensor_data
    grid_data,      \* camera._grid_data (preallocated buffer)
    statistics,     \* camera._sensor_min_c, _sensor_avg_c, _sensor_max_c
    sensor,         \* the samples read from the sensor by the last acquire
    frame,          \* the array returned by the last acquire
    SELFIE,         \* code.py system parameter
    DISPLAY_IMAGE,  \* code.py system parameter
    image_group,    \* fill colours of display.image_group's grid cells
    writes,         \* number of .fill assignments made by the last frame update
    bmp,            \* the byte buffer built by capture_grid_and_upload
    pc,             \* position of the program
    fault,          \* the exception that stopped the program, or "none"
    call,           \* an operation applied to an input: its name, input, result
    tm_min,         \* time.localtime().tm_min
    state_LocalTimeUpdated,  \* code.py primary loop flag
    state_ImageUploaded,     \* code.py primary loop flag
    t_max,          \* code.py global: maximum temperature of the last frame
    old_t_max,      \* code.py primary loop: t_max at the end of the last pass
    uploads,        \* the capture_grid_and_upload calls of the current pass
    window,         \* what happened during the current clock minute
    lpc             \* position in the primary process loop

vars == <<cam, sensor_axis, grid_axis, auto_focus, interpolate, sensor_data,
          grid_data, statistics, sensor, frame, SELFIE, DISPLAY_IMAGE,
          image_group, writes, bmp, pc, fault, call, tm_min,
          state_LocalTimeUpdated, state_ImageUploaded, t_max, old_t_max, uploads,
          window, lpc>>

(***************************************************************************)
(* Bounds of the model.                                                    *)
(***************************************************************************)
\* number of distinct temperatures a sensor cell can report
NumTemps == 2

\* Sensor element arrays, scaled down from 8x8 (AMG88xx) and 32x24 (MLX90640,
\* fake camera) keeping square / wider-than-tall.
AmgAxis == <<2, 2>>
MlxAxis == <<3, 1>>
FakeAxis == <<3, 2>>

Cameras == {"amg88xx", "mlx90640", "fake"}

(***************************************************************************)
(* Rational arithmetic standing for the floats.                            *)
(***************************************************************************)
\* F(x), with x computed once
Then(x, F(_)) == CHOOSE r \in {F(v) : v \in {x}} : TRUE

Abs(n) == IF n < 0 THEN -n ELSE n

Sign(n) == IF n < 0 THEN -1 ELSE IF n > 0 THEN 1 ELSE 0

RECURSIVE Gcd(_, _)
Gcd(a, b) == IF b = 0 THEN a ELSE Gcd(b, a % b)

\* the float n / d
Rat(n, d) ==
    IF d = 0 THEN <<Sign(n), 0>>
    ELSE LET g == Gcd(Abs(n), Abs(d))
             s == Sign(d)
         IN  <<(s * n) \div g, (s * d) \div g>>

NaN == <<0, 0>>

IsFinite(x) == x[2] > 0

RInt(n) == <<n, 1>>

RAdd(x, y) ==
    IF IsFinite(x) /\ IsFinite(y) THEN Rat(x[1] * y[2] + y[1] * x[2], x[2] * y[2])
    ELSE IF IsFinite(x) THEN y
    ELSE IF IsFinite(y) \/ x = y THEN x
    ELSE NaN

RNeg(x) == <<-x[1], x[2]>>

RSub(x, y) == RAdd(x, RNeg(y))

RMul(x, y) ==
    IF IsFinite(x) /\ IsFinite(y) THEN Rat(x[1] * y[1], x[2] * y[2])
    ELSE <<Sign(x[1]) * Sign(y[1]), 0>>

RDiv(x, y) ==
    IF IsFinite(x) /\ IsFinite(y) THEN Rat(x[1] * y[2], x[2] * y[1])
    ELSE IF IsFinite(x) /\ y # NaN THEN RInt(0)
    ELSE IF IsFinite(y) /\ x # NaN THEN <<x[1] * Sign(y[1]), 0>>
    ELSE NaN

\* x <= y, false when either is NaN (IEEE comparison)
RLe(x, y) ==
    /\ x # NaN
    /\ y # NaN
    /\ IF IsFinite(x) /\ IsFinite(y) THEN x[1] * y[2] <= y[1] * x[2]
       ELSE IF IsFinite(x) THEN y[1] > 0
       ELSE IF IsFinite(y) THEN x[1] < 0
       ELSE x[1] <= y[1]

RLt(x, y) == RLe(x, y) /\ x # y

RMinOf(x, y) == IF RLe(x, y) THEN x ELSE y

RMaxOf(x, y) == IF RLe(y, x) THEN x ELSE y

(***************************************************************************)
(* ulab arrays: a[i][j] for 0 <= i < Rows(a), 0 <= j < Cols(a).            *)
(***************************************************************************)
Rows(a) == Cardinality(DOMAIN a)

Cols(a) == Cardinality(DOMAIN a[0])

Shape(a) == <<Rows(a), Cols(a)>>

\* the function f on 0 .. n, with its values computed once
RECURSIVE Eager(_, _)
Eager(f, n) == IF n = 0 THEN (0 :> f[0]) ELSE Eager(f, n - 1) @@ (n :> f[n])

Array(w, h, F(_, _)) ==
    Eager([i \in 0 .. w - 1 |-> Eager([j \in 0 .. h - 1 |-> F(i, j)], h - 1)], w - 1)

\* the cells of an array in row-major order, as a sequence
Flat(a) ==
    [k \in 1 .. Rows(a) * Cols(a) |-> a[(k - 1) \div Cols(a)][(k - 1) % Cols(a)]]

RECURSIVE SeqSum(_)
SeqSum(s) == IF s = <<>> THEN RInt(0) ELSE RAdd(s[1], SeqSum(Tail(s)))

RECURSIVE SeqMin(_)
SeqMin(s) == IF Len(s) = 1 THEN s[1] ELSE RMinOf(s[1], SeqMin(Tail(s)))

RECURSIVE SeqMax(_)
SeqMax(s) == IF Len(s) = 1 THEN s[1] ELSE RMaxOf(s[1], SeqMax(Tail(s)))

NpMin(a) == SeqMin(Flat(a))

NpMax(a) == SeqMax(Flat(a))

NpMean(a) == Then(SeqSum(Flat(a)), LAMBDA t : RDiv(t, RInt(Rows(a) * Cols(a))))

\* np.clip without its upper limit
NpClipLowerOnly(a, lo, hi) ==
    LET F(i, j) == RMaxOf(a[i][j], lo)
    IN  Array(Rows(a), Cols(a), F)

NpClip(a, lo, hi) ==
    LET F(i, j) == RMinOf(RMaxOf(a[i][j], lo), hi)
    IN  Array(Rows(a), Cols(a), F)

\* np.flip(a, axis=0), a[::-1]
Flip0(a) ==
    LET F(i, j) == a[Rows(a) - 1 - i][j]
    IN  Array(Rows(a), Cols(a), F)

\* np.flip(a, axis=1), a[:, ::-1]
Flip1(a) ==
    LET F(i, j) == a[i][Cols(a) - 1 - j]
    IN  Array(Rows(a), Cols(a), F)

\* (a - lo) / (hi - lo), elementwise
Rescale(a, lo, hi) ==
    LET F(i, j) == RDiv(RSub(a[i][j], lo), RSub(hi, lo))
    IN  Array(Rows(a), Cols(a), F)

(***************************************************************************)
(* The cameras.                                                            *)
(***************************************************************************)
\* temp_range_c of each constructor, as (range_min_c, range_max_c)
TempRangeC(c) == IF c = "mlx90640" THEN <<-40, 300>> ELSE <<0, 80>>

SensorAxis(c) ==
    IF c = "amg88xx" THEN AmgAxis ELSE IF c = "mlx90640" THEN MlxAxis ELSE FakeAxis

\* __init__: the grid axis follows the interpolate argument
InitGridAxis(axis, interp) ==
    IF interp THEN <<2 * axis[1] - 1, 2 * axis[2] - 1>> ELSE axis

\* __init__: np.array(range(w * h)).reshape((w, h))
InitSensorData(axis) ==
    LET F(i, j) == RInt(i * axis[2] + j)
    IN  Array(axis[1], axis[2], F)

\* __init__: the sample spectrum loaded into the grid array
InitGridData(c, gaxis) ==
    LET n == gaxis[1] * gaxis[2]
        Amg(i, j) == Rat(n - (i * gaxis[2] + j), n)
        Mlx(i, j) == Rat((gaxis[1] - 1 - i) * gaxis[2] + (gaxis[2] - 1 - j), n)
        Fake(i, j) == Rat(i * gaxis[2] + j, n)
    IN  IF c = "amg88xx" THEN Array(gaxis[1], gaxis[2], Amg)
        ELSE IF c = "mlx90640" THEN Array(gaxis[1], gaxis[2], Mlx)
        ELSE Array(gaxis[1], gaxis[2], Fake)

\* The temperatures a sensor cell can report: one below the range, one above
\* it, the others spread inside it.
Temps(c) ==
    LET lo == TempRangeC(c)[1]
        hi == TempRangeC(c)[2]
    IN  {lo - 10, hi + 10}
            \cup {lo + ((k - 1) * (hi - lo)) \div NumTemps : k \in 2 .. NumTemps - 1}

\* The frames the sensor driver can deliver (amg8833.pixels, mlx90640.getFrame).
Samples(c) ==
    LET T == {RInt(t) : t \in Temps(c)}
    IN  [0 .. SensorAxis(c)[1] - 1 -> [0 .. SensorAxis(c)[2] - 1 -> T]]

\* fake_cam.acquire: the sensor array loaded with values from min to max
FakeSensor(gaxis, axis, hi) ==
    LET F(col, row) == RMul(Rat(col * gaxis[2] + row, gaxis[1] * gaxis[2]), RInt(hi))
    IN  Array(axis[1], axis[2], F)

\* acquire: the samples clipped to the range and flipped for display
ClipAndFlip(c, raw, lo, hi) ==
    LET Clip(a) == NpClip(a, lo, hi)
    IN  IF c = "amg88xx" THEN Then(Then(Then(raw, Clip), Flip0), Flip1)
        ELSE IF c = "mlx90640" THEN Then(Then(Then(Then(raw, Flip0), Clip), Flip0), Flip1)
        ELSE Clip(raw)

\* acquire: "Calculate statistics"
Statistics(a) == <<NpMin(a), NpMean(a), NpMax(a)>>

\* acquire: "Autofocus normalization"
Normalize(a, af, stats, lo, hi) ==
    IF af THEN Rescale(a, stats[1], stats[3]) ELSE Rescale(a, lo, hi)

\* g[::2, ::2], g[1::2, ::2], g[::, 1::2] ... : the shape of g[r0::2, c0::2]
SliceShape(g, r0, c0) == <<(Rows(g) - r0 + 1) \div 2, (Cols(g) - c0 + 1) \div 2>>

\* whether an array of shape s can be assigned to a view of shape v
CanBroadcast(s, v) == \A k \in 1 .. 2 : s[k] = v[k] \/ s[k] = 1

\* the sensor array is not copied into the grid array
CopyToEvenSkipped(g, s) == g

\* self._grid_data[::2, ::2] = self._sensor_data
CopyToEven(g, s) ==
    LET F(i, j) ==
            IF i % 2 = 0 /\ j % 2 = 0
            THEN s[IF Rows(s) = 1 THEN 0 ELSE i \div 2][IF Cols(s) = 1 THEN 0 ELSE j \div 2]
            ELSE g[i][j]
    IN  Array(Rows(g), Cols(g), F)

\* the odd rows are left as they were
VerticalPassSkipped(g, s) == g

\* _ulab_bilinear_interpolation, first three statements: the odd rows
VerticalPass(g, s) ==
    LET Odd(i, j) == i % 2 = 1 /\ j % 2 = 0
        \* self._grid_data[1::2, ::2] = self._sensor_data[:-1, :]
        S1(g0) ==
            LET A(i, j) == IF Odd(i, j) THEN s[(i - 1) \div 2][j \div 2] ELSE g0[i][j]
            IN  Array(Rows(g), Cols(g), A)
        \* self._grid_data[1::2, ::2] += self._sensor_data[1:, :]
        S2(g1) ==
            LET A(i, j) ==
                    IF Odd(i, j) THEN RAdd(g1[i][j], s[(i - 1) \div 2 + 1][j \div 2])
                    ELSE g1[i][j]
            IN  Array(Rows(g), Cols(g), A)
        \* self._grid_data[1::2, ::2] /= 2
        S3(g2) ==
            LET A(i, j) == IF Odd(i, j) THEN RDiv(g2[i][j], RInt(2)) ELSE g2[i][j]
            IN  Array(Rows(g), Cols(g), A)
    IN  Then(Then(Then(g, S1), S2), S3)

\* the odd columns are left as they were
HorizontalPassSkipped(g) == g

\* _ulab_bilinear_interpolation, last three statements: the odd columns
HorizontalPass(g) ==
    LET Odd(i, j) == j % 2 = 1
        \* self._grid_data[::, 1::2] = self._grid_data[::, :-1:2]
        S1(g0) ==
            LET A(i, j) == IF Odd(i, j) THEN g0[i][j - 1] ELSE g0[i][j]
            IN  Array(Rows(g), Cols(g), A)
        \* self._grid_data[::, 1::2] += self._grid_data[::, 2::2]
        S2(g1) ==
            LET A(i, j) == IF Odd(i, j) THEN RAdd(g1[i][j], g1[i][j + 1]) ELSE g1[i][j]
            IN  Array(Rows(g), Cols(g), A)
        \* self._grid_data[::, 1::2] /= 2
        S3(g2) ==
            LET A(i, j) == IF Odd(i, j) THEN RDiv(g2[i][j], RInt(2)) ELSE g2[i][j]
            IN  Array(Rows(g), Cols(g), A)
    IN  Then(Then(Then(g, S1), S2), S3)

ulab_bilinear_interpolation(g, s) == Then(VerticalPass(g, s), HorizontalPass)

\* acquire: "Interpolate if enabled"
Interpolated(g, data) ==
    Then(CopyToEven(g, data), LAMBDA even : ulab_bilinear_interpolation(even, data))

\* whether no cell of a grid is NaN
FiniteGrid(g) == \A i \in DOMAIN g : \A j \in DOMAIN g[i] : IsFinite(g[i][j])

\* acquire, from the samples read to the array returned
AcquireFrom(raw) ==
    \E lo \in {RInt(TempRangeC(cam)[1])}, hi \in {RInt(TempRangeC(cam)[2])} :
    \E clipped \in {ClipAndFlip(cam, raw, lo, hi)} :
    \E stats \in {Statistics(clipped)} :
    \E data \in {Normalize(clipped, auto_focus, stats, lo, hi)} :
        /\ sensor' = raw
        /\ statistics' = stats
        /\ sensor_data' = data
        /\ IF cam # "mlx90640" /\ interpolate
           THEN IF CanBroadcast(Shape(data), SliceShape(grid_data, 0, 0))
                THEN /\ grid_data' = Interpolated(grid_data, data)
                     /\ frame' = grid_data'
                     /\ pc' = "acquired"
                     /\ fault' = "none"
                ELSE /\ pc' = "stopped"
                     /\ fault' = "ValueError"
                     /\ UNCHANGED <<grid_data, frame>>
           ELSE /\ frame' = data
                /\ pc' = "acquired"
                /\ fault' = "none"
                /\ UNCHANGED grid_data

(***************************************************************************)
(* The display.                                                            *)
(***************************************************************************)
\* Colors
PURPLE == 16711935

BLACK == 0

PALETTE_SIZE == 100

\* the Label elements appended to image_group after the grid cells
NumLabels == 9

\* int(x) of a finite float: truncation toward zero
Trunc(x) == Sign(x[1]) * (Abs(x[1]) \div x[2])

\* round(x, digits) of a finite float: to the nearest, ties to even
PyRound(x, digits) ==
    LET scale == 10 ^ digits
        n == x[1] * scale
        q == n \div x[2]
        r == n % x[2]
        k == IF 2 * r < x[2] THEN q
             ELSE IF 2 * r > x[2] THEN q + 1
             ELSE IF q % 2 = 0 THEN q ELSE q + 1
    IN  Rat(k, scale)

\* index_to_rgb: the palette colour (RGB888) of an index, clamped to [0, 1];
\* a ramp from dark blue to white.
index_to_rgb(v) ==
    LET c == RMinOf(RMaxOf(v, RInt(0)), RInt(1))
        k == (255 * c[1]) \div c[2]
        red == k
        grn == (k * k) \div 255
        blu == IF k < 247 THEN 8 + (k * k * k) \div 65025 ELSE 255
    IN  red * 65536 + grn * 256 + blu

\* What index_to_rgb makes of a NaN index is not defined: it raises (-1) or
\* returns some colour of the palette.
NanOutcomes == {-1, index_to_rgb(RInt(0))}

\* the index is cut down to a palette step instead of rounded to the nearest one
PaletteIndexTruncated(color_index, palette_size) ==
    Rat(Trunc(RMul(color_index, RInt(palette_size))), palette_size)

\* update_image_frame: the argument of index_to_rgb,
\* round(color_index * self._palette_size, 0) / self._palette_size
PaletteIndex(color_index, palette_size) ==
    RDiv(PyRound(RMul(color_index, RInt(palette_size)), 0), RInt(palette_size))

\* update_image_frame: the colour of one grid value
CellColor(color_index, palette_size) ==
    index_to_rgb(PaletteIndex(color_index, palette_size))

\* update_image_frame: the image_group element written for (_col, _row)
ImageGroupIndex(_col, _row, axis) == (_col * axis[2]) + _row

\* update_image_frame: the grid_data element read for (_col, _row)
ImageSourceRow(_row, selfie, axis) == IF selfie THEN axis[2] - 1 - _row ELSE _row

\* the fill is assigned whatever it was
FillAlways(color, old) == TRUE

\* whether a cell's fill is assigned
FillChanges(color, old) == color # old

\* update_image_frame: the body of the two nested loops for the k-th
\* (_col, _row); st is [fill, writes, fault].
ImageStep(k, st, g, selfie, axis, nanrgb) ==
    LET _col == k \div axis[2]
        _row == k % axis[2]
        src == ImageSourceRow(_row, selfie, axis)
        group_index == ImageGroupIndex(_col, _row, axis)
        Paint(color) ==
            IF FillChanges(color, st.fill[group_index])
            THEN [st EXCEPT !.fill[group_index] = color, !.writes = @ + 1]
            ELSE st
    IN  IF _col \notin DOMAIN g \/ src \notin DOMAIN g[_col]
        THEN [st EXCEPT !.fault = "IndexError"]
        ELSE IF ~IsFinite(g[_col][src]) /\ nanrgb < 0
        THEN [st EXCEPT !.fault = "PaletteError"]
        ELSE IF ~IsFinite(g[_col][src]) THEN Paint(nanrgb)
        ELSE Then(CellColor(g[_col][src], PALETTE_SIZE), Paint)

\* update_image_frame: the two nested loops, from the k-th (_col, _row) on
RECURSIVE ImageLoop(_, _, _, _, _, _)
ImageLoop(k, st, g, selfie, axis, nanrgb) ==
    IF k = axis[1] * axis[2] \/ st.fault # "none" THEN st
    ELSE Then(ImageStep(k, st, g, selfie, axis, nanrgb),
              LAMBDA next : ImageLoop(k + 1, next, g, selfie, axis, nanrgb))

update_image_frame(fill, g, selfie, axis, nanrgb) ==
    ImageLoop(0, [fill |-> fill, writes |-> 0, fault |-> "none"], g, selfie, axis, nanrgb)

\* simpleio.map_range(x, 0, 1, 0, out_max) of a finite x: linear, clamped
MapRange01(x, out_max) ==
    RMinOf(RMaxOf(RMul(x, RInt(out_max)), RInt(0)), RInt(out_max))

\* update_histo_frame: the bin of one grid value
HistoIndex(v, axis) == Trunc(MapRange01(v, axis[1] - 1))

\* update_histo_frame: the histogram after the k-th cell of the grid, _row
\* outermost; h is [histogram, fault].
HistoStep(k, h, g, axis) ==
    LET _row == k \div axis[1]
        _col == k % axis[1]
    IN  IF _col \notin DOMAIN g \/ _row \notin DOMAIN g[_col]
        THEN [h EXCEPT !.fault = "IndexError"]
        ELSE IF ~IsFinite(g[_col][_row])
        THEN [h EXCEPT !.fault = "ValueError"]
        ELSE Then(HistoIndex(g[_col][_row], axis),
                  LAMBDA histo_index : [h EXCEPT !.histogram[histo_index] = @ + 1])

RECURSIVE HistoLoop(_, _, _, _)
HistoLoop(k, h, g, axis) ==
    IF k = axis[1] * axis[2] \/ h.fault # "none" THEN h
    ELSE Then(HistoStep(k, h, g, axis), LAMBDA next : HistoLoop(k + 1, next, g, axis))

Histogram(g, axis) ==
    HistoLoop(0, [histogram |-> [b \in 0 .. axis[1] - 1 |-> 0], fault |-> "none"], g, axis)

RECURSIVE SeqMaxInt(_)
SeqMaxInt(s) ==
    IF Len(s) = 1 THEN s[1]
    ELSE LET m == SeqMaxInt(Tail(s)) IN IF s[1] >= m THEN s[1] ELSE m

\* update_histo_frame: np.max(histogram) / (grid_axis[0] - 1), 1 when not positive
HistoScale(histogram, axis) ==
    LET m == SeqMaxInt([k \in 1 .. axis[1] |-> histogram[k - 1]])
        histo_scale == Rat(m, axis[1] - 1)
    IN  IF RLe(histo_scale, RInt(0)) THEN RInt(1) ELSE histo_scale

\* update_histo_frame: the image_group element written for (_row, _col)
HistoGroupIndex(_row, _col, axis) == (_row * axis[2]) + _col

\* image_group[index].fill of a display with n grid cells
ElementFault(index, n) ==
    IF index >= n + NumLabels THEN "IndexError"
    ELSE IF index >= n THEN "AttributeError"
    ELSE "none"

\* update_histo_frame: "Display the histogram", the k-th (_col, _row)
HistoDrawStep(k, st, histogram, histo_scale, axis) ==
    LET _col == k \div axis[2]
        _row == k % axis[2]
        group_index == HistoGroupIndex(_row, _col, axis)
        Paint(color) == [st EXCEPT !.fill[group_index] = color, !.writes = @ + 1]
    IN  IF ElementFault(group_index, axis[1] * axis[2]) # "none"
        THEN [st EXCEPT !.fault = ElementFault(group_index, axis[1] * axis[2])]
        ELSE IF RLt(RInt(axis[1] - 1 - _row), RDiv(RInt(histogram[_col]), histo_scale))
        THEN Then(index_to_rgb(PyRound(Rat(_col, axis[2]), 3)), Paint)
        ELSE Paint(BLACK)

RECURSIVE HistoDraw(_, _, _, _, _)
HistoDraw(k, st, histogram, histo_scale, axis) ==
    IF k = axis[1] * axis[2] \/ st.fault # "none" THEN st
    ELSE Then(HistoDrawStep(k, st, histogram, histo_scale, axis),
              LAMBDA next : HistoDraw(k + 1, next, histogram, histo_scale, axis))

update_histo_frame(fill, g, axis) ==
    LET Draw(h) ==
            IF h.fault # "none" THEN [fill |-> fill, writes |-> 0, fault |-> h.fault]
            ELSE IF axis[1] = 1
            THEN [fill |-> fill, writes |-> 0, fault |-> "ZeroDivisionError"]
            ELSE Then(HistoScale(h.histogram, axis),
                      LAMBDA histo_scale :
                          HistoDraw(0, [fill |-> fill, writes |-> 0, fault |-> "none"],
                                    h.histogram, histo_scale, axis))
    IN  Then(Histogram(g, axis), Draw)

(***************************************************************************)
(* The bitmap export.                                                      *)
(***************************************************************************)
\* the padding is added even when the pixel bytes already fill whole words
bytes_per_row_always_padded(source_width) ==
    LET pixel_bytes == 3 * source_width
    IN  pixel_bytes + (4 - (pixel_bytes % 4))

bytes_per_row(source_width) ==
    LET pixel_bytes == 3 * source_width
        padding_bytes == (4 - (pixel_bytes % 4)) % 4
    IN  pixel_bytes + padding_bytes

rgb888_to_bgr888_tuple(rgb_color) ==
    LET _red == (rgb_color \div 65536) % 256
        _grn == (rgb_color \div 256) % 256
        _blu == rgb_color % 256
    IN  <<_blu, _grn, _red>>

\* the columns fetched left to right whatever selfie is
RowRangeForward(selfie, axis) == [n \in 1 .. axis[1] |-> n - 1]

\* fetch_grid_row_bgr_colors: the columns in the order they are fetched
RowRange(selfie, axis) ==
    [n \in 1 .. axis[1] |-> IF selfie THEN axis[1] - n ELSE n - 1]

\* fetch_grid_row_bgr_colors: the image_group element read for (row, _col)
FetchGroupIndex(row, _col, axis) == (row * axis[2]) + _col

\* fetch_grid_row_bgr_colors: the body of the loop for the n-th column of
\* row_range; st is [buf, fault], buf the row buffer (indexed from 1 here)
FetchStep(n, st, fill, row, row_range, axis) ==
    LET group_index == FetchGroupIndex(row, row_range[n], axis)
        _buffer_index == 3 * (n - 1)
        Store(bgr) == [st EXCEPT !.buf[_buffer_index + 1] = bgr[1],
                                 !.buf[_buffer_index + 2] = bgr[2],
                                 !.buf[_buffer_index + 3] = bgr[3]]
    IN  IF ElementFault(group_index, axis[1] * axis[2]) # "none"
        THEN [st EXCEPT !.fault = ElementFault(group_index, axis[1] * axis[2])]
        ELSE Then(rgb888_to_bgr888_tuple(fill[group_index]), Store)

RECURSIVE FetchLoop(_, _, _, _, _, _)
FetchLoop(n, st, fill, row, row_range, axis) ==
    IF n > Len(row_range) \/ st.fault # "none" THEN st
    ELSE Then(FetchStep(n, st, fill, row, row_range, axis),
              LAMBDA next : FetchLoop(n + 1, next, fill, row, row_range, axis))

fetch_grid_row_bgr_colors(fill, row, selfie, axis) ==
    Then(RowRange(selfie, axis),
         LAMBDA row_range :
             FetchLoop(1, [buf |-> [p \in 1 .. bytes_per_row(axis[1]) |-> 0],
                           fault |-> "none"],
                       fill, row, row_range, axis))

\* struct.pack("<I", v) and struct.pack("<H", v)
PackI(v) == <<v % 256, (v \div 256) % 256, (v \div 65536) % 256, (v \div 16777216) % 256>>

PackH(v) == <<v % 256, (v \div 256) % 256>>

\* capture_grid_and_upload: "Build the Bitmap BMP Header"
BmpHeader(file_size) == <<66, 77>> \o PackI(file_size) \o <<0, 0>> \o <<0, 0>> \o PackI(54)

\* a DIB header four bytes short
DibHeaderShort(width, height) ==
    PackI(40) \o PackI(width) \o PackI(height) \o PackH(1) \o PackH(24)
        \o [k \in 1 .. 20 |-> 0]

\* capture_grid_and_upload: "Build the Bitmap DIB Header"
DibHeader(width, height) ==
    PackI(40) \o PackI(width) \o PackI(height) \o PackH(1) \o PackH(24)
        \o [k \in 1 .. 24 |-> 0]

\* capture_grid_and_upload: "Build the Grid Image Data", one row appended
GridBmpRow(_row, st, fill, selfie, axis) ==
    LET Extend(_row_colors) ==
            IF _row_colors.fault # "none" THEN [st EXCEPT !.fault = _row_colors.fault]
            ELSE [st EXCEPT !.buf = @ \o _row_colors.buf]
    IN  Then(fetch_grid_row_bgr_colors(fill, _row, selfie, axis), Extend)

\* capture_grid_and_upload: "Build the Grid Image Data", rows _row, _row - 1 .. 0
RECURSIVE GridBmpData(_, _, _, _, _)
GridBmpData(_row, st, fill, selfie, axis) ==
    IF _row < 0 \/ st.fault # "none" THEN st
    ELSE Then(GridBmpRow(_row, st, fill, selfie, axis),
              LAMBDA next : GridBmpData(_row - 1, next, fill, selfie, axis))

\* capture_grid_and_upload: the buffer handed to _send_b64_to_aio
capture_grid(fill, selfie, axis) ==
    LET width == axis[1]
        height == axis[2]
        file_size == 54 + height * bytes_per_row(width)
        Buffer(data) ==
            [buf |-> BmpHeader(file_size) \o DibHeader(width, height) \o data.buf,
             fault |-> data.fault]
    IN  Then(GridBmpData(height - 1, [buf |-> <<>>, fault |-> "none"], fill, selfie, axis),
             Buffer)

(***************************************************************************)
(* The program: construction, then the acquire / display / upload cycle.   *)
(***************************************************************************)
\* The interpolate argument of the constructor: code.py builds the AMG88xx
\* camera with interpolate=True, the MLX90640 class has no interpolation, the
\* fake camera is built either way.
CtorInterpolate(c) ==
    IF c = "amg88xx" THEN {TRUE} ELSE IF c = "mlx90640" THEN {FALSE} ELSE BOOLEAN

NoArray == Array(1, 1, LAMBDA i, j : RInt(0))

\* no operation has been applied
NoCall == [fn |-> "none"]

\* a clock minute in which the primary loop has done nothing yet
NewWindow == [hourly |-> FALSE, fetches |-> 0, periodic |-> FALSE, captures |-> 0]

loop_vars == <<tm_min, state_LocalTimeUpdated, state_ImageUploaded, t_max, old_t_max,
               uploads, window, lpc>>

\* the primary process loop has not been entered
LoopOff ==
    /\ tm_min = 0
    /\ state_LocalTimeUpdated = FALSE
    /\ state_ImageUploaded = FALSE
    /\ t_max = RInt(0)
    /\ old_t_max = RInt(0)
    /\ uploads = <<>>
    /\ window = NewWindow
    /\ lpc = "off"

\* the camera and the display as constructed
Constructed ==
    /\ cam \in Cameras
    /\ auto_focus \in BOOLEAN
    /\ interpolate \in CtorInterpolate(cam)
    /\ SELFIE \in BOOLEAN
    /\ DISPLAY_IMAGE \in BOOLEAN
    /\ SELFIE \/ DISPLAY_IMAGE        \* SELFIE is read in image mode only
    /\ sensor_axis = SensorAxis(cam)
    /\ grid_axis = InitGridAxis(sensor_axis, interpolate)
    /\ sensor_data = InitSensorData(sensor_axis)
    /\ grid_data = InitGridData(cam, grid_axis)
    /\ statistics = <<RInt(0), RInt(0), RInt(0)>>
    /\ sensor = NoArray
    /\ frame = NoArray
    /\ image_group = [k \in 0 .. grid_axis[1] * grid_axis[2] - 1 |-> PURPLE]
    /\ writes = 0
    /\ bmp = <<>>
    /\ pc = "start"
    /\ fault = "none"

Init ==
    /\ Constructed
    /\ call = NoCall
    /\ LoopOff

camera_vars == <<cam, sensor_axis, grid_axis, auto_focus, interpolate, sensor_data,
                 grid_data, statistics, sensor, frame>>

config_vars == <<cam, sensor_axis, grid_axis, SELFIE, DISPLAY_IMAGE>>

\* code.py: display.update_image_frame(camera.grid_data), the sample spectrum
ShowSpectrum ==
    /\ pc = "start"
    /\ \E r \in {update_image_frame(image_group, grid_data, FALSE, grid_axis, -1)} :
           /\ image_group' = r.fill
           /\ writes' = r.writes
    /\ pc' = "loop"
    /\ UNCHANGED <<camera_vars, SELFIE, DISPLAY_IMAGE, bmp, fault>>
    /\ UNCHANGED <<call, loop_vars>>

\* camera.autofocus = new_focus
SetAutofocus(new_focus) ==
    /\ pc = "loop"
    /\ auto_focus' = new_focus
    /\ UNCHANGED <<config_vars, interpolate, sensor_data, grid_data, statistics,
                   sensor, frame, image_group, writes, bmp, pc, fault>>
    /\ UNCHANGED <<call, loop_vars>>

\* camera.interpolate = new_interpolate
SetInterpolate(new_interpolate) ==
    /\ pc = "loop"
    /\ cam # "mlx90640"
    /\ interpolate' = new_interpolate
    /\ UNCHANGED <<config_vars, auto_focus, sensor_data, grid_data, statistics,
                   sensor, frame, image_group, writes, bmp, pc, fault>>
    /\ UNCHANGED <<call, loop_vars>>

\* camera.acquire()
Acquire ==
    /\ pc = "loop"
    /\ \E raw \in (IF cam = "fake"
                   THEN {FakeSensor(grid_axis, sensor_axis, TempRangeC(cam)[2])}
                   ELSE Samples(cam)) : AcquireFrom(raw)
    /\ UNCHANGED <<config_vars, auto_focus, interpolate, image_group, writes, bmp>>
    /\ UNCHANGED <<call, loop_vars>>

\* acquire_and_display: display.update_image_frame(grid_data, selfie=SELFIE)
UpdateImageFrame ==
    /\ pc = "acquired"
    /\ DISPLAY_IMAGE
    /\ \E nanrgb \in (IF FiniteGrid(frame) THEN {-1} ELSE NanOutcomes) :
          \E r \in {update_image_frame(image_group, frame, SELFIE, grid_axis, nanrgb)} :
              /\ image_group' = r.fill
              /\ writes' = r.writes
              /\ fault' = r.fault
              /\ pc' = IF r.fault = "none" THEN "displayed" ELSE "stopped"
    /\ UNCHANGED <<camera_vars, SELFIE, DISPLAY_IMAGE, bmp>>
    /\ UNCHANGED <<call, loop_vars>>

\* acquire_and_display: display.update_histo_frame(grid_data)
UpdateHistoFrame ==
    /\ pc = "acquired"
    /\ ~DISPLAY_IMAGE
    /\ \E r \in {update_histo_frame(image_group, frame, grid_axis)} :
           /\ image_group' = r.fill
           /\ writes' = r.writes
           /\ fault' = r.fault
           /\ pc' = IF r.fault = "none" THEN "displayed" ELSE "stopped"
    /\ UNCHANGED <<camera_vars, SELFIE, DISPLAY_IMAGE, bmp>>
    /\ UNCHANGED <<call, loop_vars>>

\* capture_grid_and_upload(), up to the call of _send_b64_to_aio
CaptureGridAndUpload ==
    /\ pc = "displayed"
    /\ \E r \in {capture_grid(image_group, SELFIE /\ DISPLAY_IMAGE, grid_axis)} :
           /\ bmp' = r.buf
           /\ fault' = r.fault
           /\ pc' = IF r.fault = "none" THEN "captured" ELSE "stopped"
    /\ UNCHANGED <<camera_vars, SELFIE, DISPLAY_IMAGE, image_group, writes>>
    /\ UNCHANGED <<call, loop_vars>>

\* the end of a pass of the primary process loop: the locals are dropped
EndOfLoop ==
    /\ pc \in {"displayed", "captured"}
    /\ pc' = "loop"
    /\ bmp' = <<>>
    /\ writes' = 0
    /\ UNCHANGED <<camera_vars, SELFIE, DISPLAY_IMAGE, image_group, fault>>
    /\ UNCHANGED <<call, loop_vars>>

Next ==
    \/ ShowSpectrum
    \/ \E b \in BOOLEAN : SetAutofocus(b)
    \/ \E b \in BOOLEAN : SetInterpolate(b)
    \/ Acquire
    \/ UpdateImageFrame
    \/ UpdateHistoFrame
    \/ CaptureGridAndUpload
    \/ EndOfLoop

Spec == Init /\ [][Next]_vars

(***************************************************************************)
(* Properties of acquire.                                                  *)
(***************************************************************************)
(***************************************************************************)
(* The operations on their whole input domain: a second specification, in  *)
(* which the program is constructed and one operation is applied to an     *)
(* input drawn from a bounded set.                                         *)
(***************************************************************************)
program_vars == <<camera_vars, SELFIE, DISPLAY_IMAGE, image_group, writes, bmp, fault>>

\* the widest pixel row given to bytes_per_row
MaxWidth == 40

\* display.bytes_per_row(source_width)
CallBytesPerRow(source_width) ==
    /\ pc = "start"
    /\ call = NoCall
    /\ call' = [fn |-> "bytes_per_row", arg |-> source_width,
                result |-> bytes_per_row(source_width)]
    /\ pc' = "done"
    /\ UNCHANGED <<program_vars, loop_vars>>

\* cell values are the multiples of 1 / FineSteps, a quarter of a palette step
FineSteps == 400

\* the cell values run from -OverRange / FineSteps to 1 + OverRange / FineSteps
OverRange == 40

CellValues == {Rat(n, FineSteps) : n \in -OverRange .. FineSteps + OverRange}

\* update_image_frame, the colour computed for one cell value
CallPaletteIndex(color_index) ==
    /\ pc = "start"
    /\ call = NoCall
    /\ call' = [fn |-> "palette_index", arg |-> color_index,
                result |-> PaletteIndex(color_index, PALETTE_SIZE),
                color |-> CellColor(color_index, PALETTE_SIZE)]
    /\ pc' = "done"
    /\ UNCHANGED <<program_vars, loop_vars>>

\* the longest grid axis given to the cell index computations
MaxAxis == 4

\* Display.__init__: the position in image_group of the cell appended for
\* display row `row` and column `col`
CreatedIndex(row, col, axis) == (row * axis[1]) + col

\* the image_group element that update_image_frame, update_histo_frame and
\* fetch_grid_row_bgr_colors address for one row and column of a grid
CallGroupIndex(axis, row, col) ==
    /\ pc = "start"
    /\ call = NoCall
    /\ call' = [fn |-> "group_index", axis |-> axis, row |-> row, col |-> col,
                created |-> CreatedIndex(row, col, axis),
                image |-> ImageGroupIndex(col, row, axis),
                histo |-> HistoGroupIndex(row, col, axis),
                fetch |-> FetchGroupIndex(row, col, axis)]
    /\ pc' = "done"
    /\ UNCHANGED <<program_vars, loop_vars>>

\* array shapes other than the sensor's that a sensor driver could deliver
OtherAxes == {<<3, 2>>, <<2, 3>>}

\* the arrays of one shape a sensor driver can deliver
SamplesOfShape(c, axis) ==
    LET T == {RInt(t) : t \in Temps(c)}
    IN  [0 .. axis[1] - 1 -> [0 .. axis[2] - 1 -> T]]

\* camera.acquire(), the sensor driver delivering an array of any shape
AcquireAnyShape ==
    /\ pc = "loop"
    /\ \E axis \in {sensor_axis} \cup OtherAxes :
           \E raw \in SamplesOfShape(cam, axis) : AcquireFrom(raw)
    /\ UNCHANGED <<config_vars, auto_focus, interpolate, image_group, writes, bmp>>
    /\ UNCHANGED <<call, loop_vars>>

InitInputs ==
    /\ Constructed
    /\ cam = "amg88xx"
    /\ call = NoCall
    /\ LoopOff

NextInputs ==
    \/ \E source_width \in 0 .. MaxWidth : CallBytesPerRow(source_width)
    \/ \E color_index \in CellValues : CallPaletteIndex(color_index)
    \/ \E axis \in (1 .. MaxAxis) \X (1 .. MaxAxis) :
           \E row \in 0 .. axis[2] - 1, col \in 0 .. axis[1] - 1 :
               CallGroupIndex(axis, row, col)
    \/ ShowSpectrum
    \/ \E b \in BOOLEAN : SetInterpolate(b)
    \/ AcquireAnyShape

SpecInputs == InitInputs /\ [][NextInputs]_vars

(***************************************************************************)
(* The primary process loop of code.py and its clock: a third              *)
(* specification.  A frame is represented by its maximum temperature; the  *)
(* clock minute advances at any moment, whatever the loop is doing.        *)
(***************************************************************************)
LOCAL_TIME_UPDATE == 0

IMAGE_UPLOAD_PERIOD == 20

ALARM_F == 120

MOTION_THRESH_C == Rat(3, 2)

fahrenheit_to_celsius(deg_f) == PyRound(RMul(RInt(deg_f - 32), Rat(5, 9)), 0)

ALARM_C == fahrenheit_to_celsius(ALARM_F)

\* the maximum temperatures (Celsius) a frame can have
LoopTemps == {RInt(20), RInt(21), RInt(50)}

\* update_local_time(update): whether the clock is fetched from AIO and the RTC set
update_local_time(update) == update

\* the motion test ignores the threshold
MotionDetectedAnyRise(t, old) == RLt(old, t)

\* if t_max > old_t_max + MOTION_THRESH_C
MotionDetected(t, old) == RLt(RAdd(old, MOTION_THRESH_C), t)

InitLoop ==
    /\ Constructed
    /\ cam = "amg88xx" /\ auto_focus /\ SELFIE /\ DISPLAY_IMAGE
    /\ call = NoCall
    /\ tm_min = 0
    /\ state_LocalTimeUpdated = FALSE
    /\ state_ImageUploaded = FALSE
    /\ t_max = RInt(0)
    /\ old_t_max = RInt(0)
    /\ uploads = <<>>
    /\ window = NewWindow
    /\ lpc = "setup"

\* the real-time clock passes to the next minute
Tick ==
    /\ lpc \notin {"off", "setup"}
    /\ tm_min' = (tm_min + 1) % 60
    /\ window' = NewWindow
    /\ UNCHANGED <<program_vars, pc, call, state_LocalTimeUpdated, state_ImageUploaded,
                   t_max, old_t_max, uploads, lpc>>

\* _ = update_local_time(update=True) and the initial values of the loop's state
Setup ==
    /\ lpc = "setup"
    /\ \E now \in 0 .. 59 :
           /\ tm_min' = (IF update_local_time(TRUE) THEN now ELSE tm_min)
           /\ window' = [NewWindow EXCEPT
                             !.fetches = IF update_local_time(TRUE) THEN 1 ELSE 0]
    /\ state_LocalTimeUpdated' = FALSE
    /\ state_ImageUploaded' = FALSE
    /\ old_t_max' = RInt(0)
    /\ lpc' = "acquire"
    /\ UNCHANGED <<program_vars, pc, call, t_max, uploads>>

\* acquire_and_display() at the top of a pass
AcquireAndDisplay ==
    /\ lpc = "acquire"
    /\ t_max' \in LoopTemps
    /\ uploads' = <<>>
    /\ lpc' = "alarm"
    /\ UNCHANGED <<program_vars, pc, call, tm_min, state_LocalTimeUpdated,
                   state_ImageUploaded, old_t_max, window>>

\* if t_max >= ALARM_C: ... capture_grid_and_upload()
AlarmCheck ==
    /\ lpc = "alarm"
    /\ uploads' = IF RLe(ALARM_C, t_max) THEN Append(uploads, "alarm") ELSE uploads
    /\ lpc' = "motion"
    /\ UNCHANGED <<program_vars, pc, call, tm_min, state_LocalTimeUpdated,
                   state_ImageUploaded, t_max, old_t_max, window>>

\* if t_max > old_t_max + MOTION_THRESH_C: re-acquire and upload; old_t_max = t_max
MotionCheck ==
    /\ lpc = "motion"
    /\ IF MotionDetected(t_max, old_t_max)
       THEN /\ t_max' \in LoopTemps
            /\ uploads' = Append(uploads, "motion")
       ELSE UNCHANGED <<t_max, uploads>>
    /\ old_t_max' = t_max'
    /\ lpc' = "local_time"
    /\ UNCHANGED <<program_vars, pc, call, tm_min, state_LocalTimeUpdated,
                   state_ImageUploaded, window>>

\* if time.localtime().tm_min == LOCAL_TIME_UPDATE and not state_LocalTimeUpdated
LocalTimeCheck ==
    /\ lpc = "local_time"
    /\ IF tm_min = LOCAL_TIME_UPDATE /\ ~state_LocalTimeUpdated
       THEN /\ window' = [window EXCEPT
                              !.hourly = TRUE,
                              !.fetches = IF update_local_time(FALSE) THEN @ + 1 ELSE @]
            /\ state_LocalTimeUpdated' = TRUE
       ELSE UNCHANGED <<window, state_LocalTimeUpdated>>
    /\ lpc' = "local_time_reset"
    /\ UNCHANGED <<program_vars, pc, call, tm_min, state_ImageUploaded, t_max,
                   old_t_max, uploads>>

\* if time.localtime().tm_min == LOCAL_TIME_UPDATE + 1 and state_LocalTimeUpdated
LocalTimeReset ==
    /\ lpc = "local_time_reset"
    /\ state_LocalTimeUpdated' =
           IF tm_min = LOCAL_TIME_UPDATE + 1 /\ state_LocalTimeUpdated
           THEN FALSE ELSE state_LocalTimeUpdated
    /\ lpc' = "upload"
    /\ UNCHANGED <<program_vars, pc, call, tm_min, state_ImageUploaded, t_max,
                   old_t_max, uploads, window>>

\* if time.localtime().tm_min % IMAGE_UPLOAD_PERIOD == 0 and not state_ImageUploaded
UploadCheck ==
    /\ lpc = "upload"
    /\ IF tm_min % IMAGE_UPLOAD_PERIOD = 0
       THEN IF ~state_ImageUploaded
            THEN /\ uploads' = Append(uploads, "periodic")
                 /\ window' = [window EXCEPT !.periodic = TRUE, !.captures = @ + 1]
                 /\ state_ImageUploaded' = TRUE
            ELSE /\ window' = [window EXCEPT !.periodic = TRUE]
                 /\ UNCHANGED <<uploads, state_ImageUploaded>>
       ELSE UNCHANGED <<uploads, window, state_ImageUploaded>>
    /\ lpc' = "upload_reset"
    /\ UNCHANGED <<program_vars, pc, call, tm_min, state_LocalTimeUpdated, t_max,
                   old_t_max>>

\* if time.localtime().tm_min % IMAGE_UPLOAD_PERIOD == 1 and state_ImageUploaded,
\* and the end of the pass
UploadReset ==
    /\ lpc = "upload_reset"
    /\ state_ImageUploaded' =
           IF tm_min % IMAGE_UPLOAD_PERIOD = 1 /\ state_ImageUploaded
           THEN FALSE ELSE state_ImageUploaded
    /\ lpc' = "acquire"
    /\ UNCHANGED <<program_vars, pc, call, tm_min, state_LocalTimeUpdated, t_max,
                   old_t_max, uploads, window>>

NextLoop ==
    \/ Tick
    \/ Setup
    \/ AcquireAndDisplay
    \/ AlarmCheck
    \/ MotionCheck
    \/ LocalTimeCheck
    \/ LocalTimeReset
    \/ UploadCheck
    \/ UploadReset

SpecLoop == InitLoop /\ [][NextLoop]_vars

range_min_c == RInt(TempRangeC(cam)[1])

range_max_c == RInt(TempRangeC(cam)[2])

\* acquire has returned a grid
Acquired == pc = "acquired"

\* the scene is uniform after clipping: max_c == min_c
UniformScene == statistics[1] = statistics[3]

InUnitRange(x) == RLe(RInt(0), x) /\ RLe(x, RInt(1))

\* C1: every value of the grid returned by acquire lies in [0, 1], for the
\* sensor-size grid and for the interpolated grid, with either autofocus
\* setting.
C1_GridInUnitRange ==
    Acquired => \A i \in DOMAIN frame : \A j \in DOMAIN frame[i] : InUnitRange(frame[i][j])

\* The values leave [0, 1] only when autofocus meets a uniform scene.
GridInUnitRangeUnlessDegenerate ==
    (Acquired /\ ~(auto_focus /\ UniformScene))
        => \A i \in DOMAIN frame : \A j \in DOMAIN frame[i] : InUnitRange(frame[i][j])

\* C2: with autofocus on and a uniform scene (max_c == min_c after clipping),
\* acquire does not fault and every cell of the grid it returns is 0.0.
C2_UniformSceneIsZero ==
    (Acquired /\ auto_focus /\ UniformScene)
        => /\ fault = "none"
           /\ \A i \in DOMAIN frame : \A j \in DOMAIN frame[i] : frame[i][j] = RInt(0)

\* What the code returns instead: 0.0 / 0.0 in every cell.
UniformSceneIsNaN ==
    (Acquired /\ auto_focus /\ UniformScene)
        => \A i \in DOMAIN frame : \A j \in DOMAIN frame[i] : frame[i][j] = NaN

\* a sample clipped into [range_min_c, range_max_c]
ClippedSample(x, lo, hi) == IF RLe(x, lo) THEN lo ELSE IF RLe(hi, x) THEN hi ELSE x

\* the samples of the last acquire, clipped, in the order the sensor gave them
ClippedSamples(lo, hi) ==
    [k \in 1 .. Rows(sensor) * Cols(sensor) |->
        ClippedSample(sensor[(k - 1) \div Cols(sensor)][(k - 1) % Cols(sensor)], lo, hi)]

RECURSIVE TotalOf(_, _)
TotalOf(vals, k) == IF k = 0 THEN RInt(0) ELSE RAdd(TotalOf(vals, k - 1), vals[k])

\* C3: after every acquire the statistics are the minimum, the arithmetic
\* mean and the maximum of the clipped samples, ordered
\* range_min_c <= min_c <= avg_c <= max_c <= range_max_c; they depend on the
\* samples only, not on the autofocus setting nor on the axis flips.
C3_Statistics ==
    Acquired =>
        \A vals \in {ClippedSamples(range_min_c, range_max_c)} :
            /\ \E k \in DOMAIN vals : statistics[1] = vals[k]
            /\ \A k \in DOMAIN vals : RLe(statistics[1], vals[k])
            /\ \E k \in DOMAIN vals : statistics[3] = vals[k]
            /\ \A k \in DOMAIN vals : RLe(vals[k], statistics[3])
            /\ RMul(statistics[2], RInt(Len(vals))) = TotalOf(vals, Len(vals))
            /\ RLe(range_min_c, statistics[1])
            /\ RLe(statistics[1], statistics[2])
            /\ RLe(statistics[2], statistics[3])
            /\ RLe(statistics[3], range_max_c)

\* the flipping camera has clipped a sample from below the range, and the
\* three statistics differ
C3_Witness ==
    /\ Acquired
    /\ cam = "amg88xx"
    /\ auto_focus
    /\ \E i \in DOMAIN sensor : \E j \in DOMAIN sensor[i] :
          RLt(sensor[i][j], range_min_c)
    /\ RLt(statistics[1], statistics[2])
    /\ RLt(statistics[2], statistics[3])

\* acquire has returned the interpolated grid
Interpolating == Acquired /\ cam # "mlx90640" /\ interpolate

\* C4: the interpolated grid has shape (2W-1, 2H-1) and holds the source grid
\* at its even indices: upscaled[2i][2j] = source[i][j].
C4_EvenCellsAreSource ==
    Interpolating =>
        /\ Shape(frame) = <<2 * Rows(sensor_data) - 1, 2 * Cols(sensor_data) - 1>>
        /\ \A i \in DOMAIN sensor_data : \A j \in DOMAIN sensor_data[i] :
              frame[2 * i][2 * j] = sensor_data[i][j]

\* an interpolated grid whose corners come from different source values,
\* none of them the value the grid array held before
C4_Witness ==
    /\ Interpolating
    /\ cam = "amg88xx"
    /\ IsFinite(frame[0][0])
    /\ frame[0][0] # frame[2][2]
    /\ frame[0][0] # frame[0][2]
    /\ frame[2][2] = sensor_data[1][1]

\* C5: each odd-row, even-column cell is the mean of the source cells above
\* and below it; each odd-column cell, in every row, is the mean of its left
\* and right neighbours as they are after the vertical pass; hence each
\* odd-row, odd-column cell is the mean of its four surrounding source cells.
C5_Averages ==
    Interpolating =>
        \A s \in {sensor_data} :
            /\ \A i \in 0 .. Rows(s) - 2 : \A j \in 0 .. Cols(s) - 1 :
                  frame[2 * i + 1][2 * j] = RDiv(RAdd(s[i][j], s[i + 1][j]), RInt(2))
            /\ \A r \in 0 .. Rows(frame) - 1 : \A j \in 0 .. Cols(s) - 2 :
                  frame[r][2 * j + 1]
                      = RDiv(RAdd(frame[r][2 * j], frame[r][2 * j + 2]), RInt(2))
            /\ \A i \in 0 .. Rows(s) - 2 : \A j \in 0 .. Cols(s) - 2 :
                  frame[2 * i + 1][2 * j + 1]
                      = RDiv(RAdd(RAdd(s[i][j], s[i + 1][j]),
                                  RAdd(s[i][j + 1], s[i + 1][j + 1])), RInt(4))

\* an interpolated grid whose centre cell is a value no source cell has
C5_Witness ==
    /\ Interpolating
    /\ IsFinite(frame[1][1])
    /\ \A i \in DOMAIN sensor_data : \A j \in DOMAIN sensor_data[i] :
          frame[1][1] # sensor_data[i][j]
    /\ frame[1][0] # frame[1][2]

(***************************************************************************)
(* Properties of the image frame.                                          *)
(***************************************************************************)
\* update_image_frame has rendered the grid returned by acquire
Rendered == pc = "displayed" /\ DISPLAY_IMAGE

\* the grid cell shown at display row `row`, display column `col`: the cells
\* are appended row by row, grid_axis[0] to a row
CellAt(row, col) == image_group[(row * grid_axis[1]) + col]

\* C6: after update_image_frame, the cell at display row `row` and display
\* column `col` holds the palette colour of grid[col][row], and of
\* grid[col][axis_height - 1 - row] when selfie is on.
C6_CellShowsSourceCell ==
    (Rendered /\ FiniteGrid(frame)) =>
        \A row \in 0 .. grid_axis[2] - 1 : \A col \in 0 .. grid_axis[1] - 1 :
            CellAt(row, col)
                = CellColor(frame[col][IF SELFIE THEN grid_axis[2] - 1 - row ELSE row],
                            PALETTE_SIZE)

\* What the code stores: the colour of grid[_col][_row] (mirrored in _row for
\* a selfie) goes to element _col * grid_axis[1] + _row.
ImageCellsAsWritten ==
    (Rendered /\ FiniteGrid(frame)) =>
        \A _col \in 0 .. grid_axis[1] - 1 : \A _row \in 0 .. grid_axis[2] - 1 :
            image_group[(_col * grid_axis[2]) + _row]
                = CellColor(frame[_col][IF SELFIE THEN grid_axis[2] - 1 - _row ELSE _row],
                            PALETTE_SIZE)

\* C7: update_image_frame assigns a cell's fill only when the new colour
\* differs from the stored one: the number of assignments made by a call is
\* the number of cells whose colour changes, so a call that finds every cell
\* already showing its colour (the same grid rendered again) makes none.
C7_WritesOnlyChanges ==
    [][(pc = "acquired" /\ DISPLAY_IMAGE /\ pc' # pc)
          => /\ writes' = Cardinality({k \in DOMAIN image_group :
                                          image_group'[k] # image_group[k]})
             /\ (image_group' = image_group) = (writes' = 0)]_vars

\* a frame update, after the first one, that assigned no cell
C7_Witness ==
    /\ Rendered
    /\ writes = 0
    /\ \A k \in DOMAIN image_group : image_group[k] # PURPLE
    /\ \E k \in DOMAIN image_group : image_group[k] # image_group[0]

(***************************************************************************)
(* Properties of the bitmap export.                                        *)
(***************************************************************************)
\* capture_grid_and_upload has built its buffer
Captured == pc = "captured"

\* the selfie argument capture_grid_and_upload gives to the row fetch
ExportSelfie == SELFIE /\ DISPLAY_IMAGE

\* a row of 24-bit pixels padded to a multiple of four bytes
RowBytes(width) == 4 * ((3 * width + 3) \div 4)

\* little-endian fields of the buffer, the first byte at offset `at`
Field16(at) == bmp[at + 1] + 256 * bmp[at + 2]

Field32(at) == Field16(at) + 65536 * Field16(at + 2)

\* the RGB888 colour of the pixel at row r from the top, column c, of the
\* image the buffer encodes (its rows are stored bottom-up)
PixelRGB(r, c) ==
    LET at == 54 + (grid_axis[2] - 1 - r) * RowBytes(grid_axis[1]) + 3 * c
    IN  65536 * bmp[at + 3] + 256 * bmp[at + 2] + bmp[at + 1]

C9_HeaderConsistent ==
    Captured =>
        /\ Len(bmp) = 54 + grid_axis[2] * RowBytes(grid_axis[1])
        /\ bmp[1] = 66 /\ bmp[2] = 77
        /\ Field32(2) = Len(bmp)
        /\ Field16(6) = 0 /\ Field16(8) = 0
        /\ Field32(10) = 54
        /\ Field32(14) = 40
        /\ Field32(18) = grid_axis[1]
        /\ Field32(22) = grid_axis[2]
        /\ Field16(26) = 1
        /\ Field16(28) = 24
        /\ \A k \in 31 .. 54 : bmp[k] = 0
        /\ \A k \in 1 .. Len(bmp) : bmp[k] \in 0 .. 255

\* a bitmap whose rows need a padding byte: 5 pixels, 16 bytes to a row
C9_Witness ==
    /\ Captured
    /\ grid_axis = <<5, 3>>
    /\ Len(bmp) = 102
    /\ \E k \in 55 .. Len(bmp) : bmp[k] # 0

\* C10: with selfie off, the k-th row of the pixel data is grid row
\* height - 1 - k; in it the pixel of column c is at bytes 3c .. 3c + 2, the
\* blue, green and red components of the colour stored in the cell of that
\* row and column, and only zero bytes follow the last pixel.
C10_RowsBottomUpBGR ==
    (Captured /\ ~ExportSelfie) =>
        \A k \in 0 .. grid_axis[2] - 1 :
            LET at == 54 + k * RowBytes(grid_axis[1])
            IN  /\ \A c \in 0 .. grid_axis[1] - 1 :
                      LET rgb == CellAt(grid_axis[2] - 1 - k, c)
                      IN  /\ bmp[at + 3 * c + 1] = rgb % 256
                          /\ bmp[at + 3 * c + 2] = (rgb \div 256) % 256
                          /\ bmp[at + 3 * c + 3] = (rgb \div 65536) % 256
                /\ \A p \in 3 * grid_axis[1] + 1 .. RowBytes(grid_axis[1]) :
                      bmp[at + p] = 0

\* C10 holds where the two strides agree: on the square grid, and on a grid
\* of a single row.
RowsBottomUpBGRWhenSquare ==
    (grid_axis[1] = grid_axis[2] \/ grid_axis[2] = 1) => C10_RowsBottomUpBGR

\* C11: for every width w >= 0, bytes_per_row(w) is 3w + ((4 - (3w mod 4)) mod 4),
\* which is the smallest multiple of 4 that is at least 3w: it lies in 3w .. 3w + 3
\* and no padding is added when 3w is already a multiple of 4.
C11_BytesPerRow ==
    call.fn = "bytes_per_row" =>
        LET w == call.arg
            r == call.result
        IN  /\ r = (3 * w) + ((4 - ((3 * w) % 4)) % 4)
            /\ r % 4 = 0
            /\ 3 * w <= r /\ r <= (3 * w) + 3
            /\ \A m \in 0 .. (3 * w) + 3 : (m % 4 = 0 /\ m >= 3 * w) => r <= m
            /\ ((3 * w) % 4 = 0 => r = 3 * w)

\* a 15 pixel row (45 bytes) is padded to 48 bytes, a 4 pixel row is not padded
C11_Witness ==
    /\ call.fn = "bytes_per_row"
    /\ call.arg \in {4, 15}
    /\ call.result = (IF call.arg = 15 THEN 48 ELSE 12)

\* the distance between two finite values
Distance(a, b) == LET d == RSub(a, b) IN IF d[1] < 0 THEN RNeg(d) ELSE d

PaletteSteps == {Rat(k, PALETTE_SIZE) : k \in 0 .. PALETTE_SIZE}

\* C12: for a cell value v in [0, 1] the value given to the palette is
\* round(v * PALETTE_SIZE) / PALETTE_SIZE: one of the PALETTE_SIZE + 1 multiples
\* of 1 / PALETTE_SIZE in [0, 1], and none of them is nearer to v; two values with
\* the same step receive the same colour.
C12_QuantizedToNearestStep ==
    (call.fn = "palette_index" /\ RLe(RInt(0), call.arg) /\ RLe(call.arg, RInt(1))) =>
        /\ call.result \in PaletteSteps
        /\ \A step \in PaletteSteps :
               RLe(Distance(call.arg, call.result), Distance(call.arg, step))
        /\ \A v \in CellValues :
               PaletteIndex(v, PALETTE_SIZE) = call.result
                   => CellColor(v, PALETTE_SIZE) = call.color

\* a value strictly between two palette steps was moved to a step
C12_Witness ==
    /\ call.fn = "palette_index"
    /\ RLt(RInt(0), call.arg) /\ RLt(call.arg, RInt(1))
    /\ call.arg \notin PaletteSteps
    /\ call.result \in PaletteSteps
    /\ RLt(call.arg, call.result)

\* C13: a cell value outside [0, 1] is clamped into [0, 1] before the palette
\* lookup: the palette is never asked for an index outside [0, 1].
C13_PaletteInputClamped ==
    call.fn = "palette_index" =>
        /\ RLe(RInt(0), call.result)
        /\ RLe(call.result, RInt(1))

\* the histogram frame of the last acquired grid is on the display
HistoRendered == pc = "displayed" /\ ~DISPLAY_IMAGE

\* the number of cells of the frame whose value maps linearly from [0, 1] to
\* bin b of 0 .. grid_axis[0] - 1
CellsInBin(b) ==
    Cardinality({c \in (0 .. Rows(frame) - 1) \X (0 .. Cols(frame) - 1) :
                    Trunc(RMul(frame[c[1]][c[2]], RInt(grid_axis[1] - 1))) = b})

BarScale ==
    LET most == CHOOSE m \in {CellsInBin(b) : b \in 0 .. grid_axis[1] - 1} :
                    \A b \in 0 .. grid_axis[1] - 1 : CellsInBin(b) <= m
        scale == Rat(most, grid_axis[1] - 1)
    IN  IF RLt(RInt(0), scale) THEN scale ELSE RInt(1)

\* the bar chart: the cell shown at (row, col) has the column's colour when it
\* is within CellsInBin(col) / BarScale of the bottom row, and is black otherwise
BarChart ==
    /\ fault = "none"
    /\ \A row \in 0 .. grid_axis[2] - 1, col \in 0 .. grid_axis[1] - 1 :
           CellAt(row, col)
               = IF RLt(RInt(grid_axis[2] - 1 - row), RDiv(RInt(CellsInBin(col)), BarScale))
                 THEN index_to_rgb(PyRound(Rat(col, grid_axis[2]), 3))
                 ELSE BLACK

\* C14: for every grid with values in [0, 1] update_histo_frame divides by no
\* zero and leaves a bar chart: bin b counts the cells whose value maps to b, the
\* scale is max / (bins - 1) or 1, and in every column the cells within
\* histogram[col] / scale of the bottom have the column's colour, the others
\* are black.
C14_HistogramBarChart ==
    HistoRendered =>
        /\ grid_axis[1] > 1
        /\ SeqSum([b \in 1 .. grid_axis[1] |-> RInt(CellsInBin(b - 1))])
               = RInt(grid_axis[1] * grid_axis[2])
        /\ BarChart

\* the same on the grids that are as wide as high
HistogramBarChartWhenSquare ==
    (HistoRendered /\ grid_axis[1] = grid_axis[2]) => BarChart

\* C15: a sample array whose dimensions differ from sensor_axis makes acquire
\* fail at once with an InputShapeError.
C15_ShapeChecked ==
    (pc \in {"acquired", "stopped"} /\ Shape(sensor) # sensor_axis) =>
        /\ pc = "stopped"
        /\ fault = "InputShapeError"

\* an array of another shape never comes back from acquire as a grid
OtherShapeStops ==
    (pc \in {"acquired", "stopped"} /\ Shape(sensor) # sensor_axis) => pc = "stopped"

\* C16: every clock minute with tm_min % IMAGE_UPLOAD_PERIOD = 0 in which the
\* periodic check is made produces exactly one periodic capture_grid_and_upload:
\* not none because state_ImageUploaded was left set, and not more than one.
C16_OneUploadPerPeriod ==
    /\ window.captures <= 1
    /\ window.periodic => window.captures = 1

\* within a minute the periodic upload is never made twice
AtMostOneUploadPerMinute == window.captures <= 1

\* C17: motion is detected exactly when the frame's t_max exceeds old_t_max (0
\* before the first pass) by more than MOTION_THRESH_C; on detection the loop
\* acquires again and then uploads; old_t_max ends the pass equal to the t_max
\* of the frame acquired last, so an unchanged scene triggers no further upload.
C17_MotionUpload ==
    [][(lpc = "motion" /\ lpc' # "motion") =>
          LET moved == RLt(MOTION_THRESH_C, RSub(t_max, old_t_max))
          IN  /\ moved <=> uploads' = Append(uploads, "motion")
              /\ ~moved => (uploads' = uploads /\ t_max' = t_max)
              /\ t_max = old_t_max => uploads' = uploads
              /\ old_t_max' = t_max'
              /\ t_max' \in LoopTemps]_vars

\* a pass that detected motion, acquired a cooler frame and uploaded it, and
\* remembers the cooler frame's maximum
C17_Witness ==
    /\ lpc = "local_time"
    /\ uploads = <<"alarm", "motion">>
    /\ t_max = RInt(20)
    /\ old_t_max = t_max

\* a pass on an unchanged hot scene: the alarm upload only
SteadySceneSeen ==
    /\ lpc = "local_time"
    /\ uploads = <<"alarm">>
    /\ old_t_max = RInt(50)

\* C18: the first pass that finds tm_min = LOCAL_TIME_UPDATE with
\* state_LocalTimeUpdated false fetches the time from AIO and sets the RTC, once
\* within that minute.
C18_HourlyTimeUpdate ==
    window.hourly => window.fetches = 1

\* the hourly branch is taken at most once in a minute: the flag it sets is
\* reset in the next minute only
HourlyBranchOncePerMinute ==
    [][(lpc = "local_time" /\ window.hourly) => UNCHANGED state_LocalTimeUpdated]_vars

\* the cells of a grid: (row, column) pairs
CellsOf(axis) == (0 .. axis[2] - 1) \X (0 .. axis[1] - 1)

\* C19: for every grid_axis (W, H), square or not, the element index computed
\* by update_image_frame, by update_histo_frame and by fetch_grid_row_bgr_colors
\* for a display row and column is the index row * W + col of the cell created
\* there; each operation addresses every cell exactly once and no index
\* outside 0 .. W * H - 1.
C19_SameCellIndex ==
    call.fn = "group_index" =>
        LET axis == call.axis
            All == 0 .. (axis[1] * axis[2]) - 1
        IN  /\ call.image = call.created
            /\ call.histo = call.created
            /\ call.fetch = call.created
            /\ {ImageGroupIndex(c[2], c[1], axis) : c \in CellsOf(axis)} = All
            /\ {HistoGroupIndex(c[1], c[2], axis) : c \in CellsOf(axis)} = All
            /\ {FetchGroupIndex(c[1], c[2], axis) : c \in CellsOf(axis)} = All

\* on a square grid the histogram and the export address the cell created at
\* the row and column, and the image frame addresses every cell once
SameCellIndexWhenSquare ==
    (call.fn = "group_index" /\ call.axis[1] = call.axis[2]) =>
        /\ call.histo = call.created
        /\ call.fetch = call.created
        /\ {ImageGroupIndex(c[2], c[1], call.axis) : c \in CellsOf(call.axis)}
               = 0 .. (call.axis[1] * call.axis[2]) - 1

\* a grid buffer holding a value in every cell that no frame contains
Stale(axis) == Array(axis[1], axis[2], LAMBDA i, j : RInt(-1))

\* C20: with interpolation enabled the preallocated grid buffer carries
\* nothing over: after acquire every one of its (2W-1) x (2H-1) cells has been
\* overwritten with a value that depends on the current samples only, whatever
\* the buffer held before (the initial spectrum or the previous frame).
C20_NothingCarriedOver ==
    Interpolating =>
        /\ Shape(grid_data) = <<2 * sensor_axis[1] - 1, 2 * sensor_axis[2] - 1>>
        /\ grid_data = Interpolated(Stale(Shape(grid_data)), sensor_data)
        /\ \A i \in DOMAIN grid_data : \A j \in DOMAIN grid_data[i] :
               grid_data[i][j] # RInt(-1)

\* an interpolated frame no cell of which has the value the initial spectrum
\* had in that cell
C20_Witness ==
    /\ Interpolating
    /\ FiniteGrid(grid_data)
    /\ \A i \in DOMAIN grid_data : \A j \in DOMAIN grid_data[i] :
           grid_data[i][j] # InitGridData(cam, grid_axis)[i][j]

\* C21: after construction and any sequence of interpolate-setter,
\* autofocus-setter and acquire calls, grid_axis is (2W-1, 2H-1) exactly when
\* interpolate is true and sensor_axis otherwise, and the grid returned by
\* acquire has the shape grid_axis.
C21_GridAxisFollowsInterpolate ==
    /\ grid_axis = (IF interpolate
                    THEN <<2 * sensor_axis[1] - 1, 2 * sensor_axis[2] - 1>>
                    ELSE sensor_axis)
    /\ Acquired => Shape(frame) = grid_axis

\* as long as interpolate has the value grid_axis was derived from, the grid
\* returned by acquire has the shape grid_axis
GridShapeWhileAxisFits ==
    (Acquired /\ grid_axis = InitGridAxis(sensor_axis, interpolate)) =>
        Shape(frame) = grid_axis
====
